---- MODULE Spec2Model ----
(***************************************************************************)
(* Foodgram backend: the relational store (recipes, ingredient lines,      *)
(* favorite marks, cart marks, subscriptions) and the request handlers of  *)
(* backend/api/views.py that read and change it.                           *)
(*                                                                         *)
(* recipes is the set of primary keys of the Recipe rows; recipe_fields    *)
(* maps each to its author, its cooking_time and its tags (the rows of the *)
(* many-to-many table of Recipe.tags).  ingredients and tags are the       *)
(* catalog: the Ingredient rows and the primary keys of the Tag rows.      *)
(*                                                                         *)
(* A table is a bag of rows, so that a duplicate row is representable and  *)
(* uniqueness is something the handlers and the constraints of models.py   *)
(* have to establish.  A row of a mark table carries `refs`: the workers   *)
(* that hold the model instance fetched from this row (.first()) and have  *)
(* not yet issued their delete; instance.delete() removes the row with the *)
(* instance's primary key, which is the row the worker holds, if it is     *)
(* still there.                                                            *)
(*                                                                         *)
(* Spec     handlers run one at a time, each as one step.                  *)
(* SpecConc two workers run the add/remove handlers one query at a time.   *)
(* SpecARA  a client issues Add, Remove, Add on one favorite pair.         *)
(* SpecRecipe one create, update or destroy of a recipe, drawn with its    *)
(*          store, as one step.                                            *)
(* SpecWrite  create and update one statement at a time, with readers.     *)
(* SpecLink two workers run recipe_get_link one query at a time, and the   *)
(*          links are followed.                                            *)
(* SpecCatalog the requests to the tag and ingredient endpoints among the  *)
(*          handlers of Spec and recipe update.                            *)
(***************************************************************************)
EXTENDS Integers, Sequences, FiniteSets, Bags, TLC

VARIABLES ingredients, tags, recipes, recipe_fields, lines, favorites, carts,
          subscriptions, last, req, script

vars == <<ingredients, tags, recipes, recipe_fields, lines, favorites, carts,
          subscriptions, last, req, script>>
store == <<ingredients, tags, recipes, recipe_fields, lines, favorites, carts,
           subscriptions>>

(***************************************************************************)
(* Bounds of the model.                                                    *)
(***************************************************************************)
MaxAmount == 2
MaxFavorites == 1

Users == {"u1", "u2"}
Recipes == {"r1", "r2"}
Workers == {"w1", "w2"}
Ingredients == {"i1", "i2"}
Tags == {"t1", "t2"}

Names == {"flour", "sugar"}
Units == {"g", "kg"}

(***************************************************************************)
(* The ingredient catalog: the Ingredient table, id -> (name,              *)
(* measurement_unit), unique on (name, measurement_unit).                  *)
(***************************************************************************)
IngredientRows == [name : Names, measurement_unit : Units]

IngredientName(i) == ingredients[i].name

IngredientUnit(i) == ingredients[i].measurement_unit

\* The catalogs drawn: no two ingredients have the same name and unit; the
\* first is flour in g and another one has its name in another unit, or
\* another name in its unit.
Catalogs ==
    {c \in [Ingredients -> IngredientRows] :
        /\ c["i1"] = [name |-> "flour", measurement_unit |-> "g"]
        /\ \A i, j \in Ingredients : c[i] = c[j] => i = j
        /\ \A i \in Ingredients :
              c[i].name = "flour" \/ c[i].measurement_unit = "g"}

\* Flour in g and flour in kg.
PlainCatalog ==
    [i \in Ingredients |->
        [name |-> "flour", measurement_unit |-> IF i = "i1" THEN "g" ELSE "kg"]]

Amounts == 1..MaxAmount

(***************************************************************************)
(* Bag helpers.                                                            *)
(***************************************************************************)
RECURSIVE SumOver(_, _)
SumOver(S, f) ==
    IF S = {} THEN 0
    ELSE LET x == CHOOSE y \in S : TRUE
         IN  f[x] + SumOver(S \ {x}, f)

\* Number of rows of a bag that satisfy a row predicate given as a set of rows.
CountRows(table, matching) ==
    SumOver(matching, [row \in matching |-> CopiesIn(row, table)])

OneRow(row) == SetToBag({row})

(***************************************************************************)
(* recipes.models: the tables.                                             *)
(***************************************************************************)
\* IngredientsInRecipe rows.
LineRows == [recipe : Recipes, ingredient : Ingredients, amount : Amounts]

\* UserRecipeRelation rows (ShoppingCart, FavoriteRecipe).
RelationRows == [user : Users, recipe : Recipes, refs : SUBSET Workers]

\* Subscription rows.
SubscriptionRows == [subscriber : Users, author : Users, refs : SUBSET Workers]

NewRelation(u, r) == [user |-> u, recipe |-> r, refs |-> {}]

NewSubscription(s, a) == [subscriber |-> s, author |-> a, refs |-> {}]

\* relation_model.objects.filter(user=user, recipe=recipe)
FilterRelation(table, u, r) ==
    {row \in BagToSet(table) : row.user = u /\ row.recipe = r}

\* Subscription.objects.filter(subscriber=subscriber, author=author)
FilterSubscription(table, s, a) ==
    {row \in BagToSet(table) : row.subscriber = s /\ row.author = a}

\* Variant: the model without unique_together.
RelationUniqueOff(table, u, r) == TRUE

\* unique_together = ['user', 'recipe']: may a row for (u, r) be inserted?
RelationUnique(table, u, r) == FilterRelation(table, u, r) = {}

\* unique_together = ['subscriber', 'author']
SubscriptionUnique(table, s, a) == FilterSubscription(table, s, a) = {}

\* Subscription.clean, called by Subscription.save.
SubscriptionClean(s, a) == s # a

\* relation_model.objects.create(user=user, recipe=recipe): the INSERT, which
\* the unique constraint rejects with IntegrityError.
CreateRelation(table, u, r) ==
    IF RelationUnique(table, u, r)
    THEN [table |-> table (+) OneRow(NewRelation(u, r)), error |-> "none"]
    ELSE [table |-> table, error |-> "IntegrityError"]

\* Subscription.objects.create(**validated_data): save() runs clean(), then the
\* INSERT under the unique constraint.
CreateSubscription(table, s, a) ==
    IF ~SubscriptionClean(s, a)
    THEN [table |-> table, error |-> "ValidationError"]
    ELSE IF SubscriptionUnique(table, s, a)
    THEN [table |-> table (+) OneRow(NewSubscription(s, a)), error |-> "none"]
    ELSE [table |-> table, error |-> "IntegrityError"]

\* Variant: the delete is not issued.
DeleteRowKeeps(table, row) == table

\* Variant: the delete removes every row of the recipe, whoever the user.
DeleteRowOfRecipe(table, row) ==
    LET kept == {x \in BagToSet(table) : x.recipe # row.recipe}
    IN  [x \in kept |-> CopiesIn(x, table)]

\* instance.delete() of a row fetched earlier: DELETE ... WHERE id = pk.
DeleteRow(table, row) ==
    IF BagIn(row, table) THEN table (-) OneRow(row) ELSE table

\* queryset.delete(): DELETE of every row the filter matches.
DeleteSubscriptions(table, s, a) ==
    LET keep == BagToSet(table) \ FilterSubscription(table, s, a)
    IN  [row \in keep |-> CopiesIn(row, table)]

EmptyTable == EmptyBag

\* Rows of a mark table for (u, r), and of the subscriptions for (s, a).
RelationCount(table, u, r) == CountRows(table, FilterRelation(table, u, r))

SubscriptionCount(table, s, a) == CountRows(table, FilterSubscription(table, s, a))

(***************************************************************************)
(* RecipeViewSet.download_shopping_cart: the aggregation query.            *)
(***************************************************************************)
\* Variant: the recipes in any user's cart.
ShoppingCartRecipesAnyUser(u) ==
    {r \in recipes : \E row \in BagToSet(carts) : row.recipe = r}

\* Recipe.objects.filter(recipes_shoppingcart_by_recipe__user=request.user)
ShoppingCartRecipes(u) ==
    {r \in recipes : \E row \in BagToSet(carts) : row.user = u /\ row.recipe = r}

\* Variant: IngredientsInRecipe.objects.all(), the filter left out.
ShoppingCartLinesAll(u) == BagToSet(lines)

\* IngredientsInRecipe.objects.filter(recipe__in=shopping_cart_recipes)
ShoppingCartLines(u) ==
    {l \in BagToSet(lines) : l.recipe \in ShoppingCartRecipes(u)}

\* Variant: .values('ingredient__name') alone, the unit left out of the key.
GroupKeyNameOnly(l) == <<IngredientName(l.ingredient), "">>

\* .values('ingredient__name', 'ingredient__measurement_unit'): the group key.
GroupKey(l) == <<IngredientName(l.ingredient), IngredientUnit(l.ingredient)>>

\* Variant: Count('amount') in place of Sum('amount').
TotalAmountCount(group) == Cardinality(group)

\* .annotate(total_amount=Sum('amount')) of one group.
TotalAmount(group) ==
    SumOver(group, [l \in group |-> l.amount * CopiesIn(l, lines)])

\* The result set of the query: one item per group key.
AggregatedIngredients(u) ==
    LET selected == ShoppingCartLines(u)
        keys == {GroupKey(l) : l \in selected}
    IN  {[name |-> k[1], unit |-> k[2],
          total |-> TotalAmount({l \in selected : GroupKey(l) = k})] : k \in keys}

\* The query has no order_by and IngredientsInRecipe no Meta.ordering: the
\* database returns the items in an order of its choosing.
ResultOrders(items) ==
    {s \in [1..Cardinality(items) -> items] :
        \A i, j \in 1..Cardinality(items) : s[i] = s[j] => i = j}

CsvHeader == <<"Ingredient", "Amount", "Unit">>

\* writer.writerow([name, total_amount, measurement_unit])
CsvRow(item) == <<item.name, item.total, item.unit>>

CsvBody(order) == <<CsvHeader>> \o [i \in 1..Len(order) |-> CsvRow(order[i])]

(***************************************************************************)
(* Responses.                                                              *)
(***************************************************************************)
NoBody == <<>>

Response(op, table, user, target, status, detail, body) ==
    [op |-> op, table |-> table, user |-> user, target |-> target,
     status |-> status, detail |-> detail, body |-> body]

NoResponse == Response("none", "none", "none", "none", 0, "none", NoBody)

HTTP_200_OK == 200
HTTP_201_CREATED == 201
HTTP_204_NO_CONTENT == 204
HTTP_400_BAD_REQUEST == 400
HTTP_404_NOT_FOUND == 404
HTTP_500_SERVER_ERROR == 500

(***************************************************************************)
(* The add / remove logic of the mark tables and of the subscriptions.     *)
(* Each returns the table after the call with the response status and      *)
(* detail.                                                                 *)
(***************************************************************************)
Outcome(table, status, detail) ==
    [table |-> table, status |-> status, detail |-> detail]

\* The response after objects.create: 201, or the unhandled IntegrityError.
AfterCreate(created) ==
    IF created.error = "none"
    THEN Outcome(created.table, HTTP_201_CREATED, "created")
    ELSE Outcome(created.table, HTTP_500_SERVER_ERROR, created.error)

\* relation_model.objects.filter(user=user, recipe=recipe).exists()
RelationExists(table, u, r) == FilterRelation(table, u, r) # {}

\* Variant: create() without the exists() lookup.
AddToRelationUnchecked(table, u, r) == AfterCreate(CreateRelation(table, u, r))

\* RecipeViewSet._add_to_relation
AddToRelation(table, u, r) ==
    IF RelationExists(table, u, r)
    THEN Outcome(table, HTTP_400_BAD_REQUEST, "already_exists")
    ELSE AfterCreate(CreateRelation(table, u, r))

\* ShoppingCartSerializer.validate: TRUE when the data is valid.
ShoppingCartValidate(table, u, r) == ~RelationExists(table, u, r)

\* RecipeViewSet.shopping_cart, POST: is_valid(), then save().
AddToShoppingCart(table, u, r) ==
    IF ~ShoppingCartValidate(table, u, r)
    THEN Outcome(table, HTTP_400_BAD_REQUEST, "already_exists")
    ELSE AfterCreate(CreateRelation(table, u, r))

\* Variant: a Remove of an absent pair answers 204 as well.
RemoveFromRelationSilent(table, u, r) ==
    LET found == FilterRelation(table, u, r)
    IN  Outcome(IF found = {} THEN table
                ELSE table (-) OneRow(CHOOSE row \in found : TRUE),
                HTTP_204_NO_CONTENT, "removed")

\* RecipeViewSet._remove_from_relation
RemoveFromRelation(table, u, r) ==
    LET found == FilterRelation(table, u, r)
    IN  IF found = {}
        THEN Outcome(table, HTTP_400_BAD_REQUEST, "not_found")
        ELSE LET relation_item == CHOOSE row \in found : TRUE
             IN  Outcome(DeleteRow(table, relation_item),
                         HTTP_204_NO_CONTENT, "removed")

\* Variant: validate() without the lookup of an existing subscription.
SubscriptionValidateNoExists(table, s, a) ==
    IF s = a THEN "self_subscription" ELSE "valid"

\* Variant: validate() without the comparison of subscriber and author.
SubscriptionValidateNoSelf(table, s, a) ==
    IF FilterSubscription(table, s, a) # {} THEN "already_exists" ELSE "valid"

\* SubscriptionCreateSerializer.validate: "valid", or the error it raises.
SubscriptionValidate(table, s, a) ==
    IF s = a THEN "self_subscription"
    ELSE IF FilterSubscription(table, s, a) # {} THEN "already_exists"
    ELSE "valid"

\* Variant: the row is inserted as given, neither validate() nor save() run.
AddSubscriptionInsert(table, s, a) ==
    Outcome(table (+) OneRow(NewSubscription(s, a)), HTTP_201_CREATED, "created")

\* UserViewSet.subscribe, POST: is_valid(raise_exception=True), then save().
AddSubscription(table, s, a) ==
    LET valid == SubscriptionValidate(table, s, a)
    IN  IF valid # "valid"
        THEN Outcome(table, HTTP_400_BAD_REQUEST, valid)
        ELSE AfterCreate(CreateSubscription(table, s, a))

\* UserViewSet.subscribe, DELETE: filter(), 400 when empty, queryset.delete().
RemoveSubscription(table, s, a) ==
    IF FilterSubscription(table, s, a) = {}
    THEN Outcome(table, HTTP_400_BAD_REQUEST, "not_found")
    ELSE Outcome(DeleteSubscriptions(table, s, a), HTTP_204_NO_CONTENT, "removed")

(***************************************************************************)
(* Recipes: create, update and destroy of RecipeViewSet with               *)
(* CreateRecipeSerializer.  Of the request data the model keeps            *)
(* ingredients, tags and cooking_time; name, text and image are taken as   *)
(* valid.  `supplied` is the set of keys present in the request data.      *)
(***************************************************************************)
HTTP_401_UNAUTHORIZED == 401
HTTP_403_FORBIDDEN == 403

MinCookingTime == 1
MaxCookingTime == 240
MinAmount == 1
PositiveSmallIntegerMax == 32767

\* settings.DATABASES: sqlite3 under DEBUG, postgresql otherwise.
Engines == {"sqlite3", "postgresql"}

Anonymous == "anonymous"

Callers == Users \cup {Anonymous}

Fields == {"ingredients", "tags", "cooking_time"}

Item(i, a) == [id |-> i, amount |-> a]

\* Lists of at most two elements of S.
Lists(S) == {<<>>} \cup {<<x>> : x \in S} \cup {<<x, y>> : x \in S, y \in S}

ItemAmounts == {MinAmount - 1, MinAmount, MaxAmount, PositiveSmallIntegerMax + 1}

IngredientLists == Lists({Item(i, a) : i \in Ingredients, a \in ItemAmounts})

TagLists == Lists(Tags)

CookingTimes == {MinCookingTime - 1, MinCookingTime, MaxCookingTime, MaxCookingTime + 1}

\* A request body may carry keys the serializer does not declare; the one
\* followed here is "author", naming another user.
BodyAuthors == {"u2"}

NoAuthor == "none"

\* Recipe.code of a recipe without a short link (null).
NoCode == "none"

BodyKeys == Fields \cup {"author"}

\* The request data; a key that is not supplied carries no value of its own.
\* The bodies that name an author carry at most one ingredient.
RecipeData ==
    {d \in [supplied : SUBSET BodyKeys, ingredients : IngredientLists,
            tags : TagLists, cooking_time : CookingTimes,
            author : BodyAuthors \cup {NoAuthor}] :
        /\ "ingredients" \notin d.supplied => d.ingredients = <<>>
        /\ "tags" \notin d.supplied => d.tags = <<>>
        /\ "cooking_time" \notin d.supplied => d.cooking_time = MinCookingTime
        /\ "author" \in d.supplied <=> d.author # NoAuthor
        /\ "author" \in d.supplied => Len(d.ingredients) <= 1}

NoData == [supplied |-> {}, ingredients |-> <<>>, tags |-> <<>>,
           cooking_time |-> MinCookingTime, author |-> NoAuthor]

\* Variant: the serializer declares every key of the body.
ValidatedDataAll(data) == data

\* serializer.validated_data: the declared fields of Meta.fields only.
ValidatedData(data) ==
    [data EXCEPT !.supplied = @ \cap Fields, !.author = NoAuthor]

Range(list) == {list[n] : n \in DOMAIN list}

\* len(ids) != len(set(ids))
Repeats(list) == Len(list) # Cardinality(Range(list))

IngredientIds(items) == [n \in DOMAIN items |-> items[n].id]

\* Variant: the amount field without min_value.
AmountValidAny(a) == TRUE

\* IngredientInRecipeWriteSerializer.amount: IntegerField(min_value=1)
AmountValid(a) == a >= MinAmount

\* IngredientInRecipeWriteSerializer: id is the key of an Ingredient row.
ItemValid(item) == item.id \in DOMAIN ingredients /\ AmountValid(item.amount)

\* Variant: cooking_time without the validators of the model field.
CookingTimeValidAny(t) == TRUE

\* Recipe.cooking_time: MinValueValidator(1), MaxValueValidator(240)
CookingTimeValid(t) == t >= MinCookingTime /\ t <= MaxCookingTime

\* Serializer.to_internal_value: every field of the serializer is required
\* unless the update is partial, and each supplied value passes its field.
FieldsValid(data, partial) ==
    /\ (Fields \ data.supplied # {}) => partial
    /\ "ingredients" \in data.supplied =>
          \A n \in DOMAIN data.ingredients : ItemValid(data.ingredients[n])
    /\ "tags" \in data.supplied => Range(data.tags) \subseteq tags
    /\ "cooking_time" \in data.supplied => CookingTimeValid(data.cooking_time)

\* Variant: validate() without the check for an empty ingredient list.
ValidateAllowsNoIngredients(data) ==
    IF "ingredients" \notin data.supplied THEN "ingredients_required"
    ELSE IF "tags" \notin data.supplied THEN "tags_required"
    ELSE IF Repeats(IngredientIds(data.ingredients)) THEN "ingredients_repeat"
    ELSE IF data.tags = <<>> THEN "tags_empty"
    ELSE IF Repeats(data.tags) THEN "tags_repeat"
    ELSE "valid"

\* Variant: validate() without the checks for repeated ids.
ValidateAllowsRepeats(data) ==
    IF "ingredients" \notin data.supplied THEN "ingredients_required"
    ELSE IF "tags" \notin data.supplied THEN "tags_required"
    ELSE IF data.ingredients = <<>> THEN "ingredients_empty"
    ELSE IF data.tags = <<>> THEN "tags_empty"
    ELSE "valid"

\* CreateRecipeSerializer.validate: "valid", or the error it raises.
Validate(data) ==
    IF "ingredients" \notin data.supplied THEN "ingredients_required"
    ELSE IF "tags" \notin data.supplied THEN "tags_required"
    ELSE IF data.ingredients = <<>> THEN "ingredients_empty"
    ELSE IF Repeats(IngredientIds(data.ingredients)) THEN "ingredients_repeat"
    ELSE IF data.tags = <<>> THEN "tags_empty"
    ELSE IF Repeats(data.tags) THEN "tags_repeat"
    ELSE "valid"

\* serializer.is_valid(): the fields first, validate() when they pass.
IsValid(data, partial) ==
    IF ~FieldsValid(data, partial) THEN "invalid_field" ELSE Validate(data)

(***************************************************************************)
(* The writes of the recipe handlers, on a record of the tables they       *)
(* touch.  Every statement is committed as it is issued: the serializer    *)
(* opens no transaction and settings.py sets no ATOMIC_REQUESTS.           *)
(***************************************************************************)
Db ==
    [recipes |-> recipes, recipe_fields |-> recipe_fields, lines |-> lines,
     favorites |-> favorites, carts |-> carts]

Done(db, status, detail) == [db |-> db, status |-> status, detail |-> detail]

\* The table without the rows that refer to recipe r.
WithoutRecipe(table, r) ==
    LET kept == {row \in BagToSet(table) : row.recipe # r}
    IN  [row \in kept |-> CopiesIn(row, table)]

LinesOfRecipe(db, r) == {l \in BagToSet(db.lines) : l.recipe = r}

\* Recipe.objects.create(**validated_data), author from perform_create.
InsertRecipe(db, r, u, data) ==
    [db EXCEPT
       !.recipes = @ \cup {r},
       !.recipe_fields =
           [x \in db.recipes \cup {r} |->
               IF x = r
               THEN [author |-> u, cooking_time |-> data.cooking_time,
                     tags |-> {}, code |-> NoCode]
               ELSE db.recipe_fields[x]]]

\* ModelSerializer.update: setattr of the validated fields, instance.save().
SaveFields(db, r, data) ==
    LET timed == IF "cooking_time" \in data.supplied
                 THEN [db EXCEPT !.recipe_fields[r].cooking_time =
                                     data.cooking_time]
                 ELSE db
    IN  IF "author" \in data.supplied
        THEN [timed EXCEPT !.recipe_fields[r].author = data.author]
        ELSE timed

\* recipe.tags.set(tags_data)
SetTags(db, r, tag_ids) ==
    [db EXCEPT !.recipe_fields[r].tags = Range(tag_ids)]

\* instance.ingredients_in_recipe.all().delete()
DeleteLines(db, r) ==
    [db EXCEPT !.lines = WithoutRecipe(db.lines, r)]

NewLines(r, items) ==
    {[recipe |-> r, ingredient |-> items[n].id, amount |-> items[n].amount] :
        n \in DOMAIN items}

\* Variant: IngredientsInRecipe without unique_together.
BulkCreateErrorNoUnique(db, r, items, engine) ==
    IF engine = "postgresql" /\
       \E n \in DOMAIN items : items[n].amount > PositiveSmallIntegerMax
    THEN "DataError"
    ELSE IF \E n \in DOMAIN items : items[n].amount < 0
    THEN "IntegrityError"
    ELSE "none"

\* The INSERT of bulk_create under the constraints of IngredientsInRecipe:
\* amount is a smallint (out of range is an error of postgresql, not of
\* sqlite3) with CHECK (amount >= 0), and (recipe, ingredient) is unique.
\* The statement inserts every row or none.
BulkCreateError(db, r, items, engine) ==
    IF engine = "postgresql" /\
       \E n \in DOMAIN items : items[n].amount > PositiveSmallIntegerMax
    THEN "DataError"
    ELSE IF \/ \E n \in DOMAIN items : items[n].amount < 0
            \/ Repeats(IngredientIds(items))
            \/ \E l \in LinesOfRecipe(db, r) : l.ingredient \in Range(IngredientIds(items))
    THEN "IntegrityError"
    ELSE "none"

\* CreateRecipeSerializer._create_ingredients
CreateIngredients(db, r, items, engine) ==
    LET error == BulkCreateError(db, r, items, engine)
    IN  IF error = "none"
        THEN [db |-> [db EXCEPT !.lines = @ (+) SetToBag(NewLines(r, items))],
              error |-> error]
        ELSE [db |-> db, error |-> error]

\* The response after the writes of save(): success, or the unhandled error.
AfterSave(saved, status, detail) ==
    IF saved.error = "none"
    THEN Done(saved.db, status, detail)
    ELSE Done(saved.db, HTTP_500_SERVER_ERROR, saved.error)

\* CreateRecipeSerializer.create
SerializerCreate(db, r, u, data, engine) ==
    LET recipe == InsertRecipe(db, r, u, data)
        tagged == SetTags(recipe, r, data.tags)
    IN  AfterSave(CreateIngredients(tagged, r, data.ingredients, engine),
                  HTTP_201_CREATED, "created")

\* Variant: update() inserts the new lines without deleting the old ones.
SerializerUpdateKeepsLines(db, r, data, engine) ==
    LET saved == SaveFields(db, r, data)
        tagged == IF "tags" \in data.supplied THEN SetTags(saved, r, data.tags)
                  ELSE saved
        fresh == {l \in NewLines(r, data.ingredients) :
                     \A m \in LinesOfRecipe(tagged, r) : m.ingredient # l.ingredient}
    IN  Done([tagged EXCEPT !.lines = @ (+) SetToBag(fresh)], HTTP_200_OK, "updated")

\* CreateRecipeSerializer.update
SerializerUpdate(db, r, data, engine) ==
    LET saved == SaveFields(db, r, data)
        tagged == IF "tags" \in data.supplied THEN SetTags(saved, r, data.tags)
                  ELSE saved
    IN  IF "ingredients" \notin data.supplied
        THEN Done(tagged, HTTP_200_OK, "updated")
        ELSE AfterSave(CreateIngredients(DeleteLines(tagged, r), r,
                                         data.ingredients, engine),
                       HTTP_200_OK, "updated")

\* Variant: the foreign keys of the marks without on_delete=CASCADE.
DeleteRecipeKeepsMarks(db, r) ==
    [recipes |-> db.recipes \ {r},
     recipe_fields |-> [x \in db.recipes \ {r} |-> db.recipe_fields[x]],
     lines |-> WithoutRecipe(db.lines, r),
     favorites |-> db.favorites,
     carts |-> db.carts]

\* instance.delete() of a recipe: on_delete=CASCADE removes its lines, its
\* tags rows and the marks on it.
DeleteRecipe(db, r) ==
    [recipes |-> db.recipes \ {r},
     recipe_fields |-> [x \in db.recipes \ {r} |-> db.recipe_fields[x]],
     lines |-> WithoutRecipe(db.lines, r),
     favorites |-> WithoutRecipe(db.favorites, r),
     carts |-> WithoutRecipe(db.carts, r)]

\* Variant: every caller passes the object permission.
HasObjectPermissionAny(db, caller, r) == TRUE

\* IsRecipeAuthor.has_object_permission
HasObjectPermission(db, caller, r) == db.recipe_fields[r].author = caller

\* Variant: the actions are open to every caller (AllowAny).
IsAuthenticatedAny(caller) == TRUE

\* permissions.IsAuthenticated.has_permission
IsAuthenticated(caller) == caller # Anonymous

\* APIView.permission_denied: NotAuthenticated for a request without
\* credentials (401 with TokenAuthentication), PermissionDenied otherwise.
PermissionDenied(db, caller) ==
    IF caller = Anonymous
    THEN Done(db, HTTP_401_UNAUTHORIZED, "not_authenticated")
    ELSE Done(db, HTTP_403_FORBIDDEN, "permission_denied")

\* RecipeViewSet create: IsAuthenticated, is_valid(), perform_create.
CreateRecipe(db, r, caller, data, engine) ==
    IF ~IsAuthenticated(caller) THEN PermissionDenied(db, caller)
    ELSE LET valid == IsValid(data, FALSE)
         IN  IF valid # "valid"
             THEN Done(db, HTTP_400_BAD_REQUEST, valid)
             ELSE SerializerCreate(db, r, caller, ValidatedData(data), engine)

\* RecipeViewSet update / partial_update: get_object() with IsRecipeAuthor,
\* is_valid(), perform_update.
UpdateRecipe(db, r, caller, partial, data, engine) ==
    IF r \notin db.recipes THEN Done(db, HTTP_404_NOT_FOUND, "no_recipe")
    ELSE IF ~HasObjectPermission(db, caller, r) THEN PermissionDenied(db, caller)
    ELSE LET valid == IsValid(data, partial)
         IN  IF valid # "valid"
             THEN Done(db, HTTP_400_BAD_REQUEST, valid)
             ELSE SerializerUpdate(db, r, ValidatedData(data), engine)

\* RecipeViewSet destroy: get_object() with IsRecipeAuthor, perform_destroy.
DestroyRecipe(db, r, caller) ==
    IF r \notin db.recipes THEN Done(db, HTTP_404_NOT_FOUND, "no_recipe")
    ELSE IF ~HasObjectPermission(db, caller, r) THEN PermissionDenied(db, caller)
    ELSE Done(DeleteRecipe(db, r), HTTP_204_NO_CONTENT, "removed")

\* The tables after a statement.
Commit(db) ==
    /\ recipes' = db.recipes
    /\ recipe_fields' = db.recipe_fields
    /\ lines' = db.lines
    /\ favorites' = db.favorites
    /\ carts' = db.carts
    /\ UNCHANGED <<ingredients, tags, subscriptions>>

(***************************************************************************)
(* Handlers, one request as one step.                                      *)
(***************************************************************************)
\* The primary key of the next Recipe row.
NewPk(db) == CHOOSE r \in Recipes \ db.recipes : TRUE

\* check_permissions refused the request before the handler ran.
NotAuthenticated(table) ==
    Outcome(table, HTTP_401_UNAUTHORIZED, "not_authenticated")

\* RecipeViewSet.favorite; get_object() answers 404 for a missing recipe.
Favorite(method, u, r) ==
    LET out == IF ~IsAuthenticated(u) THEN NotAuthenticated(favorites)
               ELSE IF r \notin recipes
               THEN Outcome(favorites, HTTP_404_NOT_FOUND, "no_recipe")
               ELSE IF method = "add"
               THEN AddToRelation(favorites, u, r)
               ELSE RemoveFromRelation(favorites, u, r)
    IN  /\ favorites' = out.table
        /\ last' = Response(method, "favorite", u, r, out.status, out.detail, NoBody)
        /\ UNCHANGED <<ingredients, tags, recipes, recipe_fields, lines, carts,
                       subscriptions>>

\* RecipeViewSet.shopping_cart
ShoppingCartHandler(method, u, r) ==
    LET out == IF ~IsAuthenticated(u) THEN NotAuthenticated(carts)
               ELSE IF r \notin recipes
               THEN Outcome(carts, HTTP_404_NOT_FOUND, "no_recipe")
               ELSE IF method = "add"
               THEN AddToShoppingCart(carts, u, r)
               ELSE RemoveFromRelation(carts, u, r)
    IN  /\ carts' = out.table
        /\ last' = Response(method, "cart", u, r, out.status, out.detail, NoBody)
        /\ UNCHANGED <<ingredients, tags, recipes, recipe_fields, lines, favorites,
                       subscriptions>>

\* RecipeViewSet.download_shopping_cart
DownloadShoppingCart(u) ==
    /\ IF ~IsAuthenticated(u)
       THEN last' = Response("download", "none", u, "none",
                             HTTP_401_UNAUTHORIZED, "not_authenticated", NoBody)
       ELSE \E order \in ResultOrders(AggregatedIngredients(u)) :
               last' = Response("download", "none", u, "none", HTTP_200_OK,
                                "csv", CsvBody(order))
    /\ UNCHANGED store

\* UserViewSet.subscribe: user u, author a (get_object_or_404 found it).
Subscribe(method, u, a) ==
    LET out == IF ~IsAuthenticated(u) THEN NotAuthenticated(subscriptions)
               ELSE IF method = "add"
               THEN AddSubscription(subscriptions, u, a)
               ELSE RemoveSubscription(subscriptions, u, a)
    IN  /\ subscriptions' = out.table
        /\ last' = Response(method, "subscription", u, a, out.status, out.detail,
                            NoBody)
        /\ UNCHANGED <<ingredients, tags, recipes, recipe_fields, lines, favorites,
                       carts>>

\* RecipeViewSet destroy
RecipeDestroy(u, r) ==
    LET out == DestroyRecipe(Db, r, u)
    IN  /\ Commit(out.db)
        /\ last' = Response("destroy", "recipe", u, r, out.status, out.detail,
                            NoBody)
        /\ UNCHANGED <<req, script>>

\* The bodies of the create requests followed together with the marks: a
\* valid one, whose recipe is a plain one, and an empty one.
PlainBody ==
    [supplied |-> Fields, ingredients |-> <<Item("i1", MinAmount)>>,
     tags |-> <<"t1">>, cooking_time |-> MinCookingTime, author |-> NoAuthor]

CreateBodies == {PlainBody, NoData}

\* The callers of these create requests.
Creators == {"u1", Anonymous}

\* RecipeViewSet create
RecipeCreate(u, data) ==
    /\ Recipes \ recipes # {}
    /\ \E engine \in Engines :
          LET out == CreateRecipe(Db, NewPk(Db), u, data, engine)
          IN  /\ Commit(out.db)
              /\ last' = Response("create", "recipe", u, NewPk(Db), out.status,
                                  out.detail, NoBody)
    /\ UNCHANGED <<req, script>>

FavoritePost(u, r) == Favorite("add", u, r) /\ UNCHANGED <<req, script>>

SubscribePost(u, a) == Subscribe("add", u, a) /\ UNCHANGED <<req, script>>

SubscribeDelete(u, a) == Subscribe("remove", u, a) /\ UNCHANGED <<req, script>>

FavoriteDelete(u, r) == Favorite("remove", u, r) /\ UNCHANGED <<req, script>>

ShoppingCartPost(u, r) == ShoppingCartHandler("add", u, r) /\ UNCHANGED <<req, script>>

ShoppingCartDelete(u, r) == ShoppingCartHandler("remove", u, r) /\ UNCHANGED <<req, script>>

Download(u) == DownloadShoppingCart(u) /\ UNCHANGED <<req, script>>

(***************************************************************************)
(* Initial stores.  A recipe has at least one ingredient line, no          *)
(* ingredient twice, every amount positive (CreateRecipeSerializer);       *)
(* a mark table has one row per pair at most and only rows of existing     *)
(* recipes (unique_together, on_delete=CASCADE).                           *)
(***************************************************************************)
ValidLines(rs) ==
    {L \in SUBSET LineRows :
        /\ \A l \in L : l.recipe \in rs
        /\ \A r \in rs : \E l \in L : l.recipe = r
        /\ \A l, m \in L : (l.recipe = m.recipe /\ l.ingredient = m.ingredient) => l = m}

\* The recipe rows of the recipes rs, all alike: author u1, one minute, tag t1.
PlainFields(rs) ==
    [r \in rs |-> [author |-> "u1", cooking_time |-> 1, tags |-> {"t1"},
                   code |-> NoCode]]

\* One line per recipe: the smallest store with the recipes rs.
PlainLines(rs) == {[recipe |-> r, ingredient |-> "i1", amount |-> 1] : r \in rs}

ValidMarks(rs) ==
    {SetToBag({NewRelation(p[1], p[2]) : p \in P}) : P \in SUBSET (Users \X rs)}

IdleRequest ==
    [pc |-> "idle", op |-> "none", table |-> "none", user |-> "none",
     target |-> "none", status |-> 0, detail |-> "none"]

NoScript == [user |-> "none", recipe |-> "none", results |-> <<>>]

Quiet ==
    /\ last = NoResponse
    /\ req = [w \in Workers |-> IdleRequest]
    /\ script = NoScript

Init ==
    /\ ingredients = PlainCatalog
    /\ tags = Tags
    /\ recipes \in SUBSET Recipes
    /\ recipe_fields = PlainFields(recipes)
    /\ lines = SetToBag(PlainLines(recipes))
    /\ favorites = EmptyTable
    /\ carts = EmptyTable
    /\ subscriptions = EmptyTable
    /\ Quiet

Next ==
    \/ \E u \in Callers, r \in Recipes : FavoritePost(u, r)
    \/ \E u \in Callers, r \in Recipes : FavoriteDelete(u, r)
    \/ \E u \in Callers, r \in Recipes : ShoppingCartPost(u, r)
    \/ \E u \in Callers, r \in Recipes : ShoppingCartDelete(u, r)
    \/ \E u \in Callers : Download(u)
    \/ \E u \in Callers, a \in Users : SubscribePost(u, a)
    \/ \E u \in Callers, a \in Users : SubscribeDelete(u, a)
    \/ \E u \in Callers, r \in Recipes : RecipeDestroy(u, r)
    \/ \E u \in Creators, data \in CreateBodies : RecipeCreate(u, data)

Spec == Init /\ [][Next]_vars

(***************************************************************************)
(* SpecList: the shopping list as a function of the store.  The store is   *)
(* drawn from the valid stores within the bounds, and the list is          *)
(* downloaded from it.                                                     *)
(***************************************************************************)
InitList ==
    /\ ingredients \in Catalogs
    /\ tags = Tags
    /\ recipes \in SUBSET Recipes
    /\ recipe_fields = PlainFields(recipes)
    /\ lines \in {SetToBag(L) : L \in ValidLines(recipes)}
    /\ carts \in ValidMarks(recipes)
    /\ favorites \in {f \in ValidMarks(recipes) : BagCardinality(f) <= MaxFavorites}
    /\ subscriptions = EmptyTable
    /\ Quiet

NextList == \E u \in Users : Download(u)

SpecList == InitList /\ [][NextList]_vars

(***************************************************************************)
(* Properties of the shopping list (checked under SpecList).               *)
(* They are stated from the store: the cart marks of the user, the lines   *)
(* of the marked recipes, the ingredient of each line.                     *)
(***************************************************************************)
Downloaded == last.op = "download"

\* The data rows of the last response: the body without its header row.
DataRows == Tail(last.body)

\* The recipes that have a cart mark of user u.
MarkedRecipes(u) == {r \in Recipes : RelationCount(carts, u, r) > 0}

\* The ingredient lines of the recipes in u's cart.
MarkedLines(u) == {l \in BagToSet(lines) : l.recipe \in MarkedRecipes(u)}

LinesOf(u, i) == {l \in MarkedLines(u) : l.ingredient = i}

AmountSum(L) == SumOver(L, [l \in L |-> l.amount])

RowsFor(i) ==
    {k \in 1..Len(DataRows) :
        DataRows[k][1] = IngredientName(i) /\ DataRows[k][3] = IngredientUnit(i)}

\* C1: the downloaded list has, for every ingredient that occurs in lines of
\* the user's cart recipes with amounts a1..ak, exactly one row, and its total
\* is a1+...+ak.
C1_TotalPerIngredient ==
    Downloaded =>
        \A i \in Ingredients :
            LinesOf(last.user, i) # {} =>
                /\ Cardinality(RowsFor(i)) = 1
                /\ \A k \in RowsFor(i) : DataRows[k][2] = AmountSum(LinesOf(last.user, i))

\* A list was downloaded in which one ingredient sums two lines of different
\* amounts.
C1_Witness ==
    /\ Downloaded
    /\ \E i \in Ingredients :
          /\ Cardinality(LinesOf(last.user, i)) = 2
          /\ \E l, m \in LinesOf(last.user, i) : l.amount # m.amount
          /\ \E k \in RowsFor(i) : DataRows[k][2] = 3

\* The (name, unit) pairs that occur in the lines of u's cart recipes.
MarkedPairs(u) ==
    {<<IngredientName(l.ingredient), IngredientUnit(l.ingredient)>> : l \in MarkedLines(u)}

\* C2: the downloaded list has exactly one row per distinct (ingredient name,
\* measurement unit) pair of the cart recipes' lines; the same name with two
\* units gives two rows.
C2_OneRowPerNameAndUnit ==
    Downloaded =>
        /\ {<<DataRows[k][1], DataRows[k][3]>> : k \in 1..Len(DataRows)}
              = MarkedPairs(last.user)
        /\ Len(DataRows) = Cardinality(MarkedPairs(last.user))

\* A list was downloaded that has two rows of the same name and different units.
C2_Witness ==
    /\ Downloaded
    /\ \E j, k \in 1..Len(DataRows) :
          DataRows[j][1] = DataRows[k][1] /\ DataRows[j][3] # DataRows[k][3]

RECURSIVE SeqSum(_)
SeqSum(rows) == IF rows = <<>> THEN 0 ELSE Head(rows)[2] + SeqSum(Tail(rows))

\* C3: the list of user u is made of the lines of the recipes with a cart mark
\* of u and of nothing else: every row belongs to such a line and the totals
\* add up to the amounts of exactly those lines, each counted once.
C3_OnlyOwnCart ==
    Downloaded =>
        /\ \A k \in 1..Len(DataRows) :
              <<DataRows[k][1], DataRows[k][3]>> \in MarkedPairs(last.user)
        /\ SeqSum(DataRows) = AmountSum(MarkedLines(last.user))

\* A list was downloaded by a user with a recipe in the cart, while another
\* recipe is in the other user's cart and in this user's favorites only.
C3_Witness ==
    /\ Downloaded
    /\ MarkedRecipes(last.user) # {}
    /\ \E r \in recipes \ MarkedRecipes(last.user) :
          /\ RelationCount(favorites, last.user, r) > 0
          /\ \E v \in Users \ {last.user} : RelationCount(carts, v, r) > 0

\* C4: a user without a cart mark downloads a successful response whose body
\* is the header row alone.
C4_EmptyCart ==
    (Downloaded /\ MarkedRecipes(last.user) = {}) =>
        /\ last.status = HTTP_200_OK
        /\ last.body = <<CsvHeader>>
        /\ DataRows = <<>>

\* A user with an empty cart downloaded the list while recipes exist and are
\* in the other user's cart.
C4_Witness ==
    /\ Downloaded
    /\ MarkedRecipes(last.user) = {}
    /\ \E v \in Users : MarkedRecipes(v) # {}

\* C5: two successive downloads of one user from the same store return the
\* rows in the same order.
C5_SameOrder ==
    [][(Downloaded /\ last'.op = "download" /\ last'.user = last.user
            /\ store' = store)
          => last'.body = last.body]_vars

(***************************************************************************)
(* Properties of the favorite and cart toggles (checked under Spec).       *)
(***************************************************************************)
MarkTables == {"favorite", "cart"}

MarkTable(t) == IF t = "favorite" THEN favorites ELSE carts

\* The step is the handling of `method` on table t for the pair (u, r).
Handled(method, t, u, r) ==
    /\ last'.op = method
    /\ last'.table = t
    /\ last'.user = u
    /\ last'.target = r

\* C6: Add on an absent pair answers 201 and leaves exactly one row of the
\* pair; Add on a present pair answers 400 "already exists" and leaves the
\* table as it was.
C6_Add ==
    [][\A t \in MarkTables, u \in Users, r \in recipes :
          Handled("add", t, u, r) =>
              IF RelationCount(MarkTable(t), u, r) = 0
              THEN /\ last'.status = HTTP_201_CREATED
                   /\ RelationCount(MarkTable(t)', u, r) = 1
              ELSE /\ last'.status = HTTP_400_BAD_REQUEST
                   /\ last'.detail = "already_exists"
                   /\ MarkTable(t)' = MarkTable(t)]_vars

\* An Add was refused for a pair that is present.
C6_Witness ==
    /\ last.op = "add"
    /\ last.table \in MarkTables
    /\ last.detail = "already_exists"
    /\ RelationCount(MarkTable(last.table), last.user, last.target) = 1

\* C7: Remove on a present pair answers 204 and leaves no row of the pair;
\* Remove on an absent pair answers 400 "not found" and leaves the table as
\* it was.
C7_Remove ==
    [][\A t \in MarkTables, u \in Users, r \in recipes :
          Handled("remove", t, u, r) =>
              IF RelationCount(MarkTable(t), u, r) > 0
              THEN /\ last'.status = HTTP_204_NO_CONTENT
                   /\ RelationCount(MarkTable(t)', u, r) = 0
              ELSE /\ last'.status = HTTP_400_BAD_REQUEST
                   /\ last'.detail = "not_found"
                   /\ MarkTable(t)' = MarkTable(t)]_vars

\* A Remove was refused for an absent pair while the table holds other rows.
C7_Witness ==
    /\ last.op = "remove"
    /\ last.table \in MarkTables
    /\ last.detail = "not_found"
    /\ RelationCount(MarkTable(last.table), last.user, last.target) = 0
    /\ MarkTable(last.table) # EmptyTable

(***************************************************************************)
(* Subscriptions, checked under Spec.                                      *)
(***************************************************************************)
\* C11: for subscriber # author the subscription toggle is the two-state
\* machine of the marks: Add on an absent pair answers 201 and leaves one row,
\* Add on a present pair answers 400 "already exists", Remove on a present
\* pair answers 204 and leaves no row, Remove on an absent pair answers 400
\* "not found"; the failing calls leave the subscriptions as they were.
C11_SubscriptionToggle ==
    [][\A u \in Users : \A a \in Users \ {u} :
          /\ Handled("add", "subscription", u, a) =>
                IF SubscriptionCount(subscriptions, u, a) = 0
                THEN /\ last'.status = HTTP_201_CREATED
                     /\ SubscriptionCount(subscriptions', u, a) = 1
                ELSE /\ last'.status = HTTP_400_BAD_REQUEST
                     /\ last'.detail = "already_exists"
                     /\ subscriptions' = subscriptions
          /\ Handled("remove", "subscription", u, a) =>
                IF SubscriptionCount(subscriptions, u, a) > 0
                THEN /\ last'.status = HTTP_204_NO_CONTENT
                     /\ SubscriptionCount(subscriptions', u, a) = 0
                ELSE /\ last'.status = HTTP_400_BAD_REQUEST
                     /\ last'.detail = "not_found"
                     /\ subscriptions' = subscriptions]_vars

\* A second Add of a subscribed pair was refused.
C11_Witness ==
    /\ last.op = "add"
    /\ last.table = "subscription"
    /\ last.user # last.target
    /\ last.detail = "already_exists"
    /\ SubscriptionCount(subscriptions, last.user, last.target) = 1

\* C12 as stated: a toggle of (u, u) answers "self subscription" for Add and
\* for Remove, in every prior state, and leaves the subscriptions unchanged.
C12_SelfToggleInvalid ==
    [][\A u \in Users, method \in {"add", "remove"} :
          Handled(method, "subscription", u, u) =>
              /\ last'.status = HTTP_400_BAD_REQUEST
              /\ last'.detail = "self_subscription"
              /\ subscriptions' = subscriptions]_vars

\* C12 amended: Add of (u, u) answers 400 "self subscription" in every prior
\* state, before any lookup of an existing row; Remove of (u, u) answers 400
\* "not found"; both leave the subscriptions unchanged.
C12_SelfAddInvalid ==
    [][\A u \in Users :
          /\ Handled("add", "subscription", u, u) =>
                /\ last'.status = HTTP_400_BAD_REQUEST
                /\ last'.detail = "self_subscription"
                /\ subscriptions' = subscriptions
          /\ Handled("remove", "subscription", u, u) =>
                /\ last'.status = HTTP_400_BAD_REQUEST
                /\ last'.detail = "not_found"
                /\ subscriptions' = subscriptions]_vars

\* A self-subscription was refused while other subscriptions exist.
C12_Witness ==
    /\ last.op = "add"
    /\ last.table = "subscription"
    /\ last.user = last.target
    /\ last.detail = "self_subscription"
    /\ subscriptions # EmptyTable

\* C13: no subscription row has its subscriber as its author.
C13_NoSelfSubscription ==
    \A row \in BagToSet(subscriptions) : row.subscriber # row.author

\* Every other pair is subscribed and a self-subscription was just asked for.
C13_Witness ==
    /\ last.op = "add"
    /\ last.table = "subscription"
    /\ last.user = last.target
    /\ \A u \in Users : \A a \in Users \ {u} :
          SubscriptionCount(subscriptions, u, a) = 1

\* The rows of the table other than those of the pair (u, r) are the same
\* before and after.
OtherRowsKept(before, after, u, r) ==
    \A row \in BagToSet(before) \cup BagToSet(after) :
        (row.user # u \/ row.recipe # r) =>
            CopiesIn(row, after) = CopiesIn(row, before)

\* C29: a favorite Add or Remove of (u, r) changes no favorite row of another
\* pair, no cart row and no subscription; a cart Add or Remove of (u, r)
\* changes no cart row of another pair, no favorite row and no subscription.
C29_ToggleFrame ==
    [][\A method \in {"add", "remove"}, u \in Users, r \in Recipes :
          /\ Handled(method, "favorite", u, r) =>
                /\ OtherRowsKept(favorites, favorites', u, r)
                /\ carts' = carts
                /\ subscriptions' = subscriptions
          /\ Handled(method, "cart", u, r) =>
                /\ OtherRowsKept(carts, carts', u, r)
                /\ favorites' = favorites
                /\ subscriptions' = subscriptions]_vars

\* A user removed a favorite of a recipe that another user still has as a
\* favorite, with a cart mark of the same pair and a subscription in place.
C29_Witness ==
    /\ last.op = "remove"
    /\ last.table = "favorite"
    /\ last.status = HTTP_204_NO_CONTENT
    /\ RelationCount(carts, last.user, last.target) = 1
    /\ \E u \in Users \ {last.user} : RelationCount(favorites, u, last.target) = 1
    /\ subscriptions # EmptyTable

\* C21: after a destroy answered 204 the recipe, its lines and the favorite
\* and cart marks on it are gone, no row refers to a recipe that is not in the
\* store, the recipe is in no user's shopping list, and the rows of the other
\* recipes are as they were.
C21_DestroyCascades ==
    [][\A u \in Users, r \in Recipes :
          (Handled("destroy", "recipe", u, r) /\
           last'.status = HTTP_204_NO_CONTENT) =>
              /\ recipes' = recipes \ {r}
              /\ \A t \in {lines', favorites', carts'} :
                    \A row \in BagToSet(t) : row.recipe \in recipes'
              /\ \A x \in Users : r \notin ShoppingCartRecipes(x)'
              /\ \A x \in recipes' : recipe_fields'[x] = recipe_fields[x]
              /\ \A t \in {<<lines, lines'>>, <<favorites, favorites'>>,
                            <<carts, carts'>>} :
                    \A row \in BagToSet(t[1]) :
                        row.recipe # r => CopiesIn(row, t[2]) = CopiesIn(row, t[1])]_vars

\* A recipe with a mark on it was destroyed and a marked recipe remains.
C21_Witness ==
    /\ last.op = "destroy"
    /\ last.status = HTTP_204_NO_CONTENT
    /\ recipes # {}
    /\ carts # EmptyTable
    /\ favorites # EmptyTable

(***************************************************************************)
(* SpecARA: a client issues Add, Remove, Add on one favorite pair that is  *)
(* absent at the start, and records the status of each response.           *)
(***************************************************************************)
ScriptMethods == <<"add", "remove", "add">>

ScriptLength == Len(ScriptMethods)

ScriptMethod(n) == ScriptMethods[n + 1]

InitARA ==
    /\ ingredients = PlainCatalog
    /\ tags = Tags
    /\ recipes \in SUBSET Recipes
    /\ recipe_fields = PlainFields(recipes)
    /\ lines = SetToBag(PlainLines(recipes))
    /\ script \in [user : Users, recipe : recipes, results : {<<>>}]
    /\ favorites \in {f \in ValidMarks(recipes) :
                         RelationCount(f, script.user, script.recipe) = 0}
    /\ carts \in ValidMarks(recipes)
    /\ subscriptions = EmptyTable
    /\ last = NoResponse
    /\ req = [w \in Workers |-> IdleRequest]

ScriptStep ==
    /\ Len(script.results) < ScriptLength
    /\ Favorite(ScriptMethod(Len(script.results)), script.user, script.recipe)
    /\ script' = [script EXCEPT !.results = Append(@, last'.status)]
    /\ UNCHANGED req

NextARA == ScriptStep

SpecARA == InitARA /\ [][NextARA]_vars

\* C8: Add, Remove, Add on an absent favorite pair answer 201, 204, 201 and
\* leave exactly one row of the pair.
C8_AddRemoveAdd ==
    Len(script.results) = ScriptLength =>
        /\ script.results = <<HTTP_201_CREATED, HTTP_204_NO_CONTENT, HTTP_201_CREATED>>
        /\ RelationCount(favorites, script.user, script.recipe) = 1

\* The three requests were issued while the table holds rows of other pairs.
C8_Witness ==
    /\ Len(script.results) = ScriptLength
    /\ BagCardinality(favorites) > 1

(***************************************************************************)
(* SpecConc: two workers handle add / remove requests on the favorites,    *)
(* the cart and the subscriptions, one database query per step: the        *)
(* lookup of the handler (exists(), first(), the queryset's evaluation)    *)
(* and its write (create(), delete()) are separate steps, and the steps    *)
(* of the two workers interleave.  No handler opens a transaction and      *)
(* ATOMIC_REQUESTS is not set.                                             *)
(***************************************************************************)
TableNames == {"favorite", "cart", "subscription"}

Table(t) ==
    CASE t = "favorite" -> favorites
      [] t = "cart" -> carts
      [] t = "subscription" -> subscriptions

\* The tables after table t became new.
Stored(t, new) ==
    /\ favorites' = IF t = "favorite" THEN new ELSE favorites
    /\ carts' = IF t = "cart" THEN new ELSE carts
    /\ subscriptions' = IF t = "subscription" THEN new ELSE subscriptions

\* What a request names: a recipe of the mark tables, an author of the
\* subscriptions.
Targets(t) == IF t = "subscription" THEN Users ELSE Recipes

InFlight(pc, op, t, u, x) ==
    [pc |-> pc, op |-> op, table |-> t, user |-> u, target |-> x,
     status |-> 0, detail |-> "none"]

\* The worker answered and is free again; it keeps the answer of its last
\* request.
Answered(op, status, detail) ==
    [pc |-> "idle", op |-> op, table |-> "none", user |-> "none",
     target |-> "none", status |-> status, detail |-> detail]

\* .first(): worker w now holds the instance of this row.
Hold(table, row, w) ==
    (table (-) OneRow(row)) (+) OneRow([row EXCEPT !.refs = @ \cup {w}])

\* The rows whose instance worker w holds.
Held(table, w) == {row \in BagToSet(table) : w \in row.refs}

\* self.get_object() / get_object_or_404(User, id=id), then the dispatch on
\* request.method.
Begin(w, t, op, u, x) ==
    /\ req[w].pc = "idle"
    /\ req' = [req EXCEPT ![w] =
                  IF t # "subscription" /\ x \notin recipes
                  THEN Answered(op, HTTP_404_NOT_FOUND, "no_recipe")
                  ELSE InFlight("check", op, t, u, x)]
    /\ UNCHANGED <<store, last, script>>

\* The lookup of an Add: _add_to_relation's exists(), the serializers'
\* validate().
CheckAdd(w) ==
    LET t == req[w].table
        u == req[w].user
        x == req[w].target
        error == CASE t = "favorite" ->
                        IF RelationExists(favorites, u, x)
                        THEN "already_exists" ELSE "valid"
                   [] t = "cart" ->
                        IF ShoppingCartValidate(carts, u, x)
                        THEN "valid" ELSE "already_exists"
                   [] t = "subscription" ->
                        SubscriptionValidate(subscriptions, u, x)
    IN  /\ req[w].pc = "check"
        /\ req[w].op = "add"
        /\ req' = [req EXCEPT ![w] =
                      IF error = "valid"
                      THEN InFlight("write", "add", t, u, x)
                      ELSE Answered("add", HTTP_400_BAD_REQUEST, error)]
        /\ UNCHANGED <<store, last, script>>

\* The write of an Add: objects.create().
WriteAdd(w) ==
    LET t == req[w].table
        u == req[w].user
        x == req[w].target
        out == AfterCreate(IF t = "subscription"
                           THEN CreateSubscription(subscriptions, u, x)
                           ELSE CreateRelation(Table(t), u, x))
    IN  /\ req[w].pc = "write"
        /\ req[w].op = "add"
        /\ Stored(t, out.table)
        /\ req' = [req EXCEPT ![w] = Answered("add", out.status, out.detail)]
        /\ UNCHANGED <<ingredients, tags, recipes, recipe_fields, lines, last, script>>

\* The lookup of a Remove: _remove_from_relation's filter(...).first(), or
\* `if not subscription` of subscribe, which evaluates the queryset.
CheckRemove(w) ==
    LET t == req[w].table
        u == req[w].user
        x == req[w].target
        found == IF t = "subscription"
                 THEN FilterSubscription(subscriptions, u, x)
                 ELSE FilterRelation(Table(t), u, x)
    IN  /\ req[w].pc = "check"
        /\ req[w].op = "remove"
        /\ IF found = {}
           THEN /\ req' = [req EXCEPT ![w] =
                              Answered("remove", HTTP_400_BAD_REQUEST, "not_found")]
                /\ UNCHANGED store
           ELSE /\ req' = [req EXCEPT ![w] = InFlight("write", "remove", t, u, x)]
                /\ IF t = "subscription"
                   THEN UNCHANGED store
                   ELSE /\ \E row \in found : Stored(t, Hold(Table(t), row, w))
                        /\ UNCHANGED <<ingredients, tags, recipes, recipe_fields, lines>>
        /\ UNCHANGED <<last, script>>

\* The write of a Remove: relation_item.delete() of the instance held, or
\* subscription.delete() of the queryset.
WriteRemove(w) ==
    LET t == req[w].table
        u == req[w].user
        x == req[w].target
        held == Held(Table(t), w)
    IN  /\ req[w].pc = "write"
        /\ req[w].op = "remove"
        /\ Stored(t, IF t = "subscription"
                     THEN DeleteSubscriptions(subscriptions, u, x)
                     ELSE IF held = {} THEN Table(t)
                     ELSE DeleteRow(Table(t), CHOOSE row \in held : TRUE))
        /\ req' = [req EXCEPT ![w] =
                      Answered("remove", HTTP_204_NO_CONTENT, "removed")]
        /\ UNCHANGED <<ingredients, tags, recipes, recipe_fields, lines, last, script>>

InitConc ==
    /\ ingredients = PlainCatalog
    /\ tags = Tags
    /\ recipes = {"r1"}
    /\ recipe_fields = PlainFields(recipes)
    /\ lines = SetToBag(PlainLines(recipes))
    /\ favorites = EmptyTable
    /\ carts = EmptyTable
    /\ subscriptions = EmptyTable
    /\ Quiet

NextConc ==
    \/ \E w \in Workers, t \in TableNames, op \in {"add", "remove"}, u \in Users :
          \E x \in Targets(t) : Begin(w, t, op, u, x)
    \/ \E w \in Workers : CheckAdd(w)
    \/ \E w \in Workers : WriteAdd(w)
    \/ \E w \in Workers : CheckRemove(w)
    \/ \E w \in Workers : WriteRemove(w)

SpecConc == InitConc /\ [][NextConc]_vars

\* C9: no mark table holds two rows of one (user, recipe) pair and the
\* subscriptions hold no two rows of one (subscriber, author) pair.
C9_UniquePairs ==
    /\ \A u \in Users, r \in Recipes :
          /\ RelationCount(favorites, u, r) <= 1
          /\ RelationCount(carts, u, r) <= 1
    /\ \A s \in Users, a \in Users : SubscriptionCount(subscriptions, s, a) <= 1

\* A worker is about to insert a row of a pair that the other worker's Add
\* has inserted since the first worker's lookup.
C9_Witness ==
    \E w \in Workers, v \in Workers :
        /\ req[w].pc = "write"
        /\ req[w].op = "add"
        /\ req[v].status = HTTP_201_CREATED
        /\ IF req[w].table = "subscription"
           THEN SubscriptionCount(subscriptions, req[w].user, req[w].target) = 1
           ELSE RelationCount(Table(req[w].table), req[w].user, req[w].target) = 1

\* C10: an Add never ends in a server error: of two interleaved Adds of one
\* absent pair one answers 201 and the other 400 "already exists".
C10_LoserGetsAlreadyExists ==
    \A w \in Workers :
        (req[w].pc = "idle" /\ req[w].op = "add") =>
            \/ req[w].status = HTTP_201_CREATED
            \/ req[w].status = HTTP_404_NOT_FOUND
            \/ /\ req[w].status = HTTP_400_BAD_REQUEST
               /\ req[w].detail \in {"already_exists", "self_subscription"}

(***************************************************************************)
(* SpecRecipe: one create, update or destroy request, drawn with the store *)
(* it meets, handled as one step.  The store has no recipe, or recipe r1   *)
(* of author u1 with one or two lines, a favorite mark of u2 and a cart    *)
(* mark of u1.                                                             *)
(***************************************************************************)
Request(op, u, r, partial, data) ==
    [op |-> op, user |-> u, recipe |-> r, partial |-> partial, data |-> data,
     pc |-> "sent"]

\* The recipe that the update and destroy requests name; it is in the store
\* or not.
RequestTargets == {"r1"}

RecipeRequests ==
    {Request("create", u, "none", FALSE, d) : u \in Callers, d \in RecipeData}
    \cup {Request("update", u, r, p, d) :
             u \in Callers, r \in RequestTargets, p \in BOOLEAN, d \in RecipeData}
    \cup {Request("destroy", u, r, FALSE, NoData) :
             u \in Callers, r \in RequestTargets}

StoredLines(rs) ==
    {PlainLines(rs),
     PlainLines(rs) \cup
        {[recipe |-> r, ingredient |-> "i2", amount |-> MaxAmount] : r \in rs}}

\* The tables after the request and the response to it.
Respond(out, target) ==
    /\ recipes' = out.db.recipes
    /\ recipe_fields' = out.db.recipe_fields
    /\ lines' = out.db.lines
    /\ favorites' = out.db.favorites
    /\ carts' = out.db.carts
    /\ last' = Response(script.op, "recipe", script.user, target, out.status,
                        out.detail, NoBody)
    /\ script' = [script EXCEPT !.pc = "done"]
    /\ UNCHANGED <<ingredients, tags, subscriptions, req>>

Create ==
    /\ script.pc = "sent"
    /\ script.op = "create"
    /\ Recipes \ recipes # {}
    /\ \E engine \in Engines :
          Respond(CreateRecipe(Db, NewPk(Db), script.user, script.data, engine),
                  NewPk(Db))

Update ==
    /\ script.pc = "sent"
    /\ script.op = "update"
    /\ \E engine \in Engines :
          Respond(UpdateRecipe(Db, script.recipe, script.user, script.partial,
                               script.data, engine),
                  script.recipe)

Destroy ==
    /\ script.pc = "sent"
    /\ script.op = "destroy"
    /\ Respond(DestroyRecipe(Db, script.recipe, script.user), script.recipe)

InitRecipe ==
    /\ ingredients = PlainCatalog
    /\ tags = Tags
    /\ recipes \in {{}, {"r1"}}
    /\ recipe_fields = PlainFields(recipes)
    /\ lines \in {SetToBag(L) : L \in StoredLines(recipes)}
    /\ favorites = SetToBag({NewRelation("u2", r) : r \in recipes})
    /\ carts = SetToBag({NewRelation("u1", r) : r \in recipes})
    /\ subscriptions = EmptyTable
    /\ last = NoResponse
    /\ req = [w \in Workers |-> IdleRequest]
    /\ script \in RecipeRequests

NextRecipe == Create \/ Update \/ Destroy

SpecRecipe == InitRecipe /\ [][NextRecipe]_vars

\* The step handles the request `script` of kind op.
Sent(op) == script.pc = "sent" /\ script'.pc = "done" /\ script.op = op

\* The caller may send the request: any user a create, the author of an
\* existing recipe an update.
Authorised ==
    \/ script.op = "create" /\ script.user \in Users
    \/ /\ script.op = "update"
       /\ script.recipe \in recipes
       /\ recipe_fields[script.recipe].author = script.user

Supplied(f) == f \in script.data.supplied

\* C14: a create whose ingredient list is empty or missing is answered 400
\* and changes no table.
C14_NoIngredientsRejected ==
    [][(Sent("create") /\ Authorised /\
        (~Supplied("ingredients") \/ script.data.ingredients = <<>>)) =>
          /\ last'.status = HTTP_400_BAD_REQUEST
          /\ store' = store]_vars

\* A create with tags and an empty ingredient list was refused for that.
C14_Witness ==
    /\ script.pc = "done"
    /\ script.op = "create"
    /\ script.data.supplied = Fields
    /\ script.data.ingredients = <<>>
    /\ script.data.tags = <<"t1">>
    /\ last.detail = "ingredients_empty"

\* C15: a create or an update with an empty tag list, a tag twice or an
\* ingredient twice is answered 400 and changes no table.
C15_EmptyOrRepeatedRejected ==
    [][LET noTags == Supplied("tags") /\ script.data.tags = <<>>
           tagTwice == Supplied("tags") /\ Repeats(script.data.tags)
           ingredientTwice ==
               /\ Supplied("ingredients")
               /\ Repeats(IngredientIds(script.data.ingredients))
       IN  ((Sent("create") \/ Sent("update")) /\ Authorised /\
            (noTags \/ tagTwice \/ ingredientTwice)) =>
              /\ last'.status = HTTP_400_BAD_REQUEST
              /\ store' = store]_vars

\* An update by the author that names one ingredient twice was refused.
C15_Witness ==
    /\ script.pc = "done"
    /\ script.op = "update"
    /\ last.detail = "ingredients_repeat"
    /\ Len(script.data.ingredients) = 2
    /\ recipes # {}

\* C16: a create or an update is accepted only with cooking_time in 1..240
\* and every amount above 0; with cooking_time 0 or 241, or an amount of 0 or
\* less, it is answered 400 and changes no table.
C16_RangesChecked ==
    [][((Sent("create") \/ Sent("update")) /\ Authorised) =>
          LET time == script.data.cooking_time
              items == script.data.ingredients
              timeOk == Supplied("cooking_time") =>
                            (time >= MinCookingTime /\ time <= MaxCookingTime)
              amountsOk == \A n \in DOMAIN items : items[n].amount > 0
          IN  /\ last'.status \in {HTTP_200_OK, HTTP_201_CREATED} =>
                    (timeOk /\ amountsOk)
              /\ ~(timeOk /\ amountsOk) =>
                    /\ last'.status = HTTP_400_BAD_REQUEST
                    /\ store' = store]_vars

\* A create with cooking_time 241 and otherwise valid data was refused.
C16_Witness ==
    /\ script.pc = "done"
    /\ script.op = "create"
    /\ script.user \in Users
    /\ script.data.cooking_time = MaxCookingTime + 1
    /\ script.data.tags = <<"t1">>
    /\ script.data.ingredients = <<Item("i1", MinAmount)>>
    /\ last.status = HTTP_400_BAD_REQUEST

\* C17: create and update are all-or-nothing: a request that is not answered
\* with success leaves every table as it was.
C17_AllOrNothing ==
    [][((Sent("create") \/ Sent("update")) /\
        last'.status \notin {HTTP_200_OK, HTTP_201_CREATED}) =>
          store' = store]_vars

\* C19: after a successful update that supplies ingredients, the lines of the
\* recipe are exactly the supplied ones, one row each.
C19_LinesReplaced ==
    [][(Sent("update") /\ Supplied("ingredients") /\
        last'.status = HTTP_200_OK) =>
          LET given == NewLines(script.recipe, script.data.ingredients)
          IN  /\ {l \in BagToSet(lines') : l.recipe = script.recipe} = given
              /\ \A l \in given : CopiesIn(l, lines') = 1]_vars

\* An update replaced the two lines of r1 by one line of another amount.
C19_Witness ==
    /\ script.pc = "done"
    /\ script.op = "update"
    /\ last.status = HTTP_200_OK
    /\ script.data.ingredients = <<Item("i2", MinAmount)>>
    /\ BagToSet(lines) = NewLines("r1", script.data.ingredients)

\* The caller is not the author of the existing recipe the request names.
NotAuthor ==
    /\ script.recipe \in recipes
    /\ recipe_fields[script.recipe].author # script.user

\* C20 as stated: an update or a destroy by anyone but the author, a caller
\* without credentials included, is answered 403 and changes no table.
C20_NonAuthorForbidden ==
    [][((Sent("update") \/ Sent("destroy")) /\ NotAuthor) =>
          /\ last'.status = HTTP_403_FORBIDDEN
          /\ store' = store]_vars

\* C20 amended: an update or a destroy by an authenticated user who is not
\* the author is answered 403, by a caller without credentials 401; both
\* change no table.
C20_NonAuthorRefused ==
    [][((Sent("update") \/ Sent("destroy")) /\ NotAuthor) =>
          /\ last'.status = IF script.user = Anonymous
                            THEN HTTP_401_UNAUTHORIZED
                            ELSE HTTP_403_FORBIDDEN
          /\ store' = store]_vars

\* A valid update of r1 sent by u2, who is not its author, was answered 403.
C20_Witness ==
    /\ script.pc = "done"
    /\ script.op = "update"
    /\ script.user = "u2"
    /\ IsValid(script.data, script.partial) = "valid"
    /\ last.status = HTTP_403_FORBIDDEN
    /\ recipes = {"r1"}

(***************************************************************************)
(* SpecWrite: the workers run create and update one statement at a time,   *)
(* each statement committed as it is issued, while readers retrieve the    *)
(* recipe.  The requests carry one tag and at most one ingredient; recipe  *)
(* r2 is in the store from the start and no request names it.              *)
(***************************************************************************)
WriteItems ==
    {Item("i1", MinAmount), Item("i2", MinAmount),
     Item("i1", PositiveSmallIntegerMax + 1)}

WriteData ==
    {d \in RecipeData :
        /\ d.supplied = Fields
        /\ d.cooking_time = MinCookingTime
        /\ d.tags = <<"t1">>
        /\ Len(d.ingredients) <= 1
        /\ Range(d.ingredients) \subseteq WriteItems}

Writing(pc, op, u, r, data) ==
    [pc |-> pc, op |-> op, table |-> "recipe", user |-> u, target |-> r,
     data |-> data, status |-> 0, detail |-> "none"]

\* The request up to its first write: permissions, get_object(), is_valid().
\* A refused request is answered here and has changed nothing.
BeginWrite(w, op, u, r, data) ==
    /\ req[w].pc = "idle"
    /\ LET out == IF op = "create"
                  THEN CreateRecipe(Db, r, u, data, "postgresql")
                  ELSE UpdateRecipe(Db, r, u, FALSE, data, "postgresql")
           passes == /\ IsValid(data, FALSE) = "valid"
                     /\ IF op = "create" THEN u # Anonymous
                        ELSE r \in recipes /\ HasObjectPermission(Db, u, r)
       IN  req' = [req EXCEPT ![w] =
                      IF passes THEN Writing("recipe", op, u, r, data)
                      ELSE Answered(op, out.status, out.detail)]
    /\ UNCHANGED <<store, last, script>>

\* Recipe.objects.create of create(), super().update of update().
WriteRecipe(w) ==
    /\ req[w].pc = "recipe"
    /\ IF req[w].op = "create"
       THEN /\ Recipes \ recipes # {}
            /\ Commit(InsertRecipe(Db, NewPk(Db), req[w].user, req[w].data))
            /\ req' = [req EXCEPT ![w].pc = "tags", ![w].target = NewPk(Db)]
       ELSE /\ Commit(SaveFields(Db, req[w].target, req[w].data))
            /\ req' = [req EXCEPT ![w].pc = "tags"]
    /\ UNCHANGED <<last, script>>

\* tags.set
WriteTags(w) ==
    /\ req[w].pc = "tags"
    /\ Commit(SetTags(Db, req[w].target, req[w].data.tags))
    /\ req' = [req EXCEPT ![w].pc = IF req[w].op = "create" THEN "insert"
                                    ELSE "delete"]
    /\ UNCHANGED <<last, script>>

\* update(): instance.ingredients_in_recipe.all().delete()
WriteDelete(w) ==
    /\ req[w].pc = "delete"
    /\ Commit(DeleteLines(Db, req[w].target))
    /\ req' = [req EXCEPT ![w].pc = "insert"]
    /\ UNCHANGED <<last, script>>

\* _create_ingredients, then the response.
WriteInsert(w) ==
    /\ req[w].pc = "insert"
    /\ \E engine \in Engines :
          LET out == AfterSave(CreateIngredients(Db, req[w].target,
                                                 req[w].data.ingredients, engine),
                               IF req[w].op = "create" THEN HTTP_201_CREATED
                               ELSE HTTP_200_OK,
                               "written")
          IN  /\ Commit(out.db)
              /\ req' = [req EXCEPT ![w] = Answered(req[w].op, out.status, out.detail)]
    /\ UNCHANGED <<last, script>>

\* RecipeViewSet retrieve (AllowAny): the lines of the recipe as
\* RecipeSerializer.ingredients reads them.
Retrieve(u, r) ==
    /\ last' = IF r \notin recipes
               THEN Response("retrieve", "recipe", u, r, HTTP_404_NOT_FOUND,
                             "no_recipe", NoBody)
               ELSE Response("retrieve", "recipe", u, r, HTTP_200_OK, "ok",
                             LinesOfRecipe(Db, r))
    /\ UNCHANGED <<store, req, script>>

InitWrite ==
    /\ ingredients = PlainCatalog
    /\ tags = Tags
    /\ recipes \in {{"r2"}, {"r1", "r2"}}
    /\ recipe_fields = PlainFields(recipes)
    /\ lines = SetToBag(PlainLines(recipes))
    /\ favorites = EmptyTable
    /\ carts = EmptyTable
    /\ subscriptions = EmptyTable
    /\ Quiet

NextWrite ==
    \/ \E w \in Workers, u \in Users, d \in WriteData :
          BeginWrite(w, "create", u, "none", d)
    \/ \E w \in Workers, u \in Users, r \in RequestTargets, d \in WriteData :
          BeginWrite(w, "update", u, r, d)
    \/ \E w \in Workers : WriteRecipe(w)
    \/ \E w \in Workers : WriteTags(w)
    \/ \E w \in Workers : WriteDelete(w)
    \/ \E w \in Workers : WriteInsert(w)
    \/ \E r \in RequestTargets : Retrieve(Anonymous, r)

SpecWrite == InitWrite /\ [][NextWrite]_vars

\* The line sets of recipe r that are complete: the set it starts with and
\* the set of each valid request.
WholeSets(r) ==
    {PlainLines({r})} \cup
    {NewLines(r, d.ingredients) : d \in {x \in WriteData : IsValid(x, FALSE) = "valid"}}

\* C18: a reader that interleaves with create and update sees the complete
\* old or the complete new lines of a recipe, never none and never a mix.
C18_ReaderSeesWholeSet ==
    (last.op = "retrieve" /\ last.status = HTTP_200_OK) =>
        last.body \in WholeSets(last.target)

(***************************************************************************)
(* Further properties of the recipe requests.                              *)
(***************************************************************************)
\* C22 (SpecRecipe): a partial update by the author that supplies only a
\* valid cooking_time is answered 200 and leaves the tags and the lines of the
\* recipe as they were.
C22_PartialUpdateAccepted ==
    [][(Sent("update") /\ Authorised /\ script.partial /\
        script.data.supplied = {"cooking_time"} /\
        CookingTimeValid(script.data.cooking_time)) =>
          /\ last'.status = HTTP_200_OK
          /\ recipe_fields'[script.recipe].tags = recipe_fields[script.recipe].tags
          /\ lines' = lines]_vars

\* C23 (SpecRecipe): every recipe in the store has a tag and a line, and
\* every line has an amount above 0.
C23_RecipesComplete ==
    /\ \A r \in recipes :
          /\ recipe_fields[r].tags # {}
          /\ \E l \in BagToSet(lines) : l.recipe = r
    /\ \A l \in BagToSet(lines) : l.amount > 0

\* C24 (SpecWrite): no two lines have the same recipe and ingredient.
C24_OneLinePerIngredient ==
    \A l \in BagToSet(lines) :
        /\ CopiesIn(l, lines) = 1
        /\ \A m \in BagToSet(lines) :
              (m.recipe = l.recipe /\ m.ingredient = l.ingredient) => m = l

\* The insert of one of two interleaved updates was rejected by the unique
\* constraint; the recipe holds the line of the other.
C24_Witness ==
    \E w \in Workers :
        /\ req[w].pc = "idle"
        /\ req[w].detail = "IntegrityError"
        /\ \E l \in BagToSet(lines) : l.recipe \in RequestTargets

\* C28 (SpecRecipe): a create or an update whose data pass validation does
\* not fail at the write of its lines: it is answered 200 or 201.
C28_ValidatedAmountsStorable ==
    [][((Sent("create") \/ Sent("update")) /\ Authorised /\
        IsValid(script.data, script.partial) = "valid") =>
          last'.status \in {HTTP_200_OK, HTTP_201_CREATED}]_vars


\* C30: the author of a recipe is the user who issued the create request,
\* whatever the body holds, and no update request changes the author of a
\* recipe.
C30_AuthorFixed ==
    [][/\ (Sent("create") /\ last'.target \in recipes' \ recipes) =>
              recipe_fields'[last'.target].author = script.user
       /\ (Sent("update") /\ script.recipe \in recipes) =>
              /\ script.recipe \in recipes'
              /\ recipe_fields'[script.recipe].author =
                     recipe_fields[script.recipe].author]_vars

\* The author u1 sent an accepted update whose body names u2 as the author.
C30_Witness ==
    /\ script.pc = "done"
    /\ script.op = "update"
    /\ script.user = "u1"
    /\ "author" \in script.data.supplied
    /\ script.data.author = "u2"
    /\ last.status = HTTP_200_OK
    /\ recipe_fields[script.recipe].author = "u1"


\* C25: a request without credentials to download_shopping_cart, to the
\* favorite, cart and subscription toggles or to recipe create is answered
\* 401, carries no shopping list and leaves every table as it was.
C25_AnonymousRefused ==
    [][(last'.user = Anonymous /\
        last'.op \in {"download", "add", "remove", "create"}) =>
          /\ last'.status = HTTP_401_UNAUTHORIZED
          /\ last'.body = NoBody
          /\ store' = store]_vars

\* A download without credentials was refused while a cart holds a recipe.
C25_Witness ==
    /\ last.user = Anonymous
    /\ last.op = "download"
    /\ last.status = HTTP_401_UNAUTHORIZED
    /\ carts # EmptyTable


(***************************************************************************)
(* SpecCatalog: the catalog endpoints.  TagViewSet and IngredientViewSet   *)
(* are read-only viewsets; a request is named by the viewset action its    *)
(* method and route would be mapped to.                                    *)
(***************************************************************************)
HTTP_405_METHOD_NOT_ALLOWED == 405

\* The requests sent: GET on the list and on a row, POST, DELETE.
CatalogActions == {"list", "retrieve", "create", "destroy"}

\* permissions.SAFE_METHODS of IsAuthenticatedOrReadOnly.
SafeActions == {"list", "retrieve"}

\* Variant: viewsets.ModelViewSet, with the create and destroy mixins.
ModelViewSetActions == {"list", "retrieve", "create", "destroy"}

\* viewsets.ReadOnlyModelViewSet: the list and retrieve mixins only.
ReadOnlyModelViewSetActions == {"list", "retrieve"}

\* A viewset over the rows with primary keys `rows` handles `action` on x:
\* the default permission first, then the routed handler or 405.
CatalogViewSet(rows, action, caller, x) ==
    IF action \notin SafeActions /\ ~IsAuthenticated(caller)
    THEN NotAuthenticated(rows)
    ELSE IF action \notin ReadOnlyModelViewSetActions
    THEN Outcome(rows, HTTP_405_METHOD_NOT_ALLOWED, "method_not_allowed")
    ELSE IF action = "list" THEN Outcome(rows, HTTP_200_OK, "list")
    ELSE IF action = "create"
    THEN Outcome(rows \cup {x}, HTTP_201_CREATED, "created")
    ELSE IF x \notin rows THEN Outcome(rows, HTTP_404_NOT_FOUND, "not_found")
    ELSE IF action = "retrieve" THEN Outcome(rows, HTTP_200_OK, "retrieve")
    ELSE Outcome(rows \ {x}, HTTP_204_NO_CONTENT, "removed")

\* TagViewSet; the rows of Recipe.tags go with their tag.
TagRequest(action, u, t) ==
    LET out == CatalogViewSet(tags, action, u, t)
    IN  /\ tags' = out.table
        /\ recipe_fields' =
               [r \in recipes |->
                   [recipe_fields[r] EXCEPT !.tags = @ \cap out.table]]
        /\ last' = Response(action, "tag", u, t, out.status, out.detail, NoBody)
        /\ UNCHANGED <<ingredients, recipes, lines, favorites, carts,
                       subscriptions, req, script>>

\* IngredientViewSet; the lines of an ingredient go with it.
IngredientRequest(action, u, i) ==
    LET out  == CatalogViewSet(DOMAIN ingredients, action, u, i)
        kept == {l \in BagToSet(lines) : l.ingredient \in out.table}
    IN  /\ ingredients' =
               [x \in out.table |->
                   IF x \in DOMAIN ingredients THEN ingredients[x]
                   ELSE PlainCatalog[x]]
        /\ lines' = [l \in kept |-> CopiesIn(l, lines)]
        /\ last' = Response(action, "ingredient", u, i, out.status, out.detail,
                            NoBody)
        /\ UNCHANGED <<tags, recipes, recipe_fields, favorites, carts,
                       subscriptions, req, script>>

\* RecipeViewSet update
RecipeUpdate(u, r, data) ==
    /\ \E engine \in Engines :
          LET out == UpdateRecipe(Db, r, u, FALSE, data, engine)
          IN  /\ Commit(out.db)
              /\ last' = Response("update", "recipe", u, r, out.status,
                                  out.detail, NoBody)
    /\ UNCHANGED <<req, script>>

\* The requests to the other endpoints come from u1 and from a caller
\* without credentials.
NextCatalog ==
    \/ \E action \in CatalogActions, u \in Callers, t \in Tags :
          TagRequest(action, u, t)
    \/ \E action \in CatalogActions, u \in Callers, i \in Ingredients :
          IngredientRequest(action, u, i)
    \/ \E u \in Creators, data \in CreateBodies : RecipeCreate(u, data)
    \/ \E u \in Creators, r \in Recipes, data \in CreateBodies :
          RecipeUpdate(u, r, data)
    \/ \E u \in Creators, r \in Recipes : RecipeDestroy(u, r)
    \/ \E u \in Creators, r \in Recipes : FavoritePost(u, r)
    \/ \E u \in Creators, r \in Recipes : FavoriteDelete(u, r)
    \/ \E u \in Creators, r \in Recipes : ShoppingCartPost(u, r)
    \/ \E u \in Creators, r \in Recipes : ShoppingCartDelete(u, r)
    \/ \E u \in Creators : Download(u)
    \/ \E u \in Creators, a \in Users : SubscribePost(u, a)
    \/ \E u \in Creators, a \in Users : SubscribeDelete(u, a)

SpecCatalog == Init /\ [][NextCatalog]_vars

\* C26: no request to the tag, ingredient, recipe, favorite, cart or
\* subscription endpoints changes the Ingredient rows or the Tag rows.
C26_CatalogUnchanged ==
    [][ingredients' = ingredients /\ tags' = tags]_vars

\* A signed-in user sent DELETE for a tag that a recipe carries; the request
\* was answered 405.
C26_Witness ==
    /\ last.table = "tag"
    /\ last.op = "destroy"
    /\ last.user \in Users
    /\ last.status = HTTP_405_METHOD_NOT_ALLOWED
    /\ \E r \in recipes : last.target \in recipe_fields[r].tags


(***************************************************************************)
(* SpecLink: the short links.  recipe_get_link loads the recipe and, when  *)
(* it has no code, saves the instance it loaded with a code of its own     *)
(* choice; redirect_to_recipe looks a code up.  script.links holds the     *)
(* links the clients were given: pairs of a recipe and a code.             *)
(***************************************************************************)
HTTP_302_FOUND == 302

\* uuid.uuid4().hex[:6]: any code may come out, also one already in use.
Codes == {"c1", "c2"}

NoLinks == [links |-> {}]

\* The worker holds the instance it loaded and the code it generated.
Linking(r, instance, code) ==
    [pc |-> "save", op |-> "get_link", target |-> r, instance |-> instance,
     code |-> code]

\* The response with the short link, which the client keeps.
LinkGiven(r, code) ==
    /\ last' = Response("get_link", "recipe", "none", r, HTTP_200_OK, code,
                        NoBody)
    /\ script' = [script EXCEPT !.links = @ \cup {<<r, code>>}]

\* recipe = get_object_or_404(Recipe, id=id); if not recipe.code: ...
LinkLoad(w, r) ==
    /\ req[w].pc = "idle"
    /\ IF r \notin recipes
       THEN /\ last' = Response("get_link", "recipe", "none", r,
                                HTTP_404_NOT_FOUND, "no_recipe", NoBody)
            /\ UNCHANGED <<req, script>>
       ELSE IF recipe_fields[r].code # NoCode
       THEN /\ LinkGiven(r, recipe_fields[r].code)
            /\ UNCHANGED req
       ELSE /\ \E code \in Codes :
                  req' = [req EXCEPT ![w] = Linking(r, recipe_fields[r], code)]
            /\ UNCHANGED <<last, script>>
    /\ UNCHANGED store

\* unique=True of Recipe.code: another row carries the code.
CodeTaken(r, code) ==
    \E x \in recipes \ {r} : recipe_fields[x].code = code

\* recipe.code = code; recipe.save() inside transaction.atomic(): the whole
\* loaded row is written.  After an IntegrityError the second save() runs
\* in the broken transaction and the request fails.
LinkSave(w) ==
    /\ req[w].pc = "save"
    /\ LET r    == req[w].target
           code == req[w].code
       IN  IF CodeTaken(r, code)
           THEN /\ last' = Response("get_link", "recipe", "none", r,
                                    HTTP_500_SERVER_ERROR, "transaction_aborted",
                                    NoBody)
                /\ UNCHANGED <<recipe_fields, script>>
           ELSE /\ recipe_fields' =
                       [recipe_fields EXCEPT
                           ![r] = [req[w].instance EXCEPT !.code = code]]
                /\ LinkGiven(r, code)
    /\ req' = [req EXCEPT ![w] = IdleRequest]
    /\ UNCHANGED <<ingredients, tags, recipes, lines, favorites, carts,
                   subscriptions>>

\* The recipe a code resolves to: get_object_or_404(Recipe, code=code).
Resolves(code) == {r \in recipes : recipe_fields[r].code = code}

\* redirect_to_recipe
RedirectToRecipe(code) ==
    /\ IF Resolves(code) = {}
       THEN last' = Response("redirect", "recipe", "none", "none",
                             HTTP_404_NOT_FOUND, code, NoBody)
       ELSE \E r \in Resolves(code) :
               last' = Response("redirect", "recipe", "none", r,
                                HTTP_302_FOUND, code, NoBody)
    /\ UNCHANGED <<store, req, script>>

InitLink ==
    /\ ingredients = PlainCatalog
    /\ tags = Tags
    /\ recipes \in {{"r1"}, {"r1", "r2"}}
    /\ recipe_fields = PlainFields(recipes)
    /\ lines = SetToBag(PlainLines(recipes))
    /\ favorites = EmptyTable
    /\ carts = EmptyTable
    /\ subscriptions = EmptyTable
    /\ last = NoResponse
    /\ req = [w \in Workers |-> IdleRequest]
    /\ script = NoLinks

NextLink ==
    \/ \E w \in Workers, r \in Recipes : LinkLoad(w, r)
    \/ \E w \in Workers : LinkSave(w)
    \/ \E code \in Codes : RedirectToRecipe(code)

SpecLink == InitLink /\ [][NextLink]_vars

\* C27: every short link a client was given for a recipe resolves to that
\* recipe as long as the recipe exists, and no code belongs to two recipes.
C27_LinksKeepResolving ==
    /\ \A link \in script.links :
          link[1] \in recipes => recipe_fields[link[1]].code = link[2]
    /\ \A r, x \in recipes :
          (recipe_fields[r].code # NoCode /\
           recipe_fields[r].code = recipe_fields[x].code) => r = x

====
